---- MODULE Spec2Model ----
\* Model of the hash-consing library in src/src/lib.rs: the heap of
\* HashConsedBox cells and HashConserBox tables, the HashMap of a table, the
\* manual reference counts, and the caller-visible operations on HashConser
\* (new, clone, make, drop) and HashConsed (clone, deref, drop).
EXTENDS Integers, FiniteSets, Sequences, TLC

\* ---------------------------------------------------------------- bounds
MaxCells == 3        \* heap addresses available for HashConsedBox
MaxTables == 2       \* heap addresses available for HashConserBox
MaxValue == 2        \* distinct raw values of type T
HashBuckets == 2     \* distinct outputs of T's Hash
MaxSteps == 6        \* number of calls the caller makes

CellIds == 1..MaxCells
TableIds == 1..MaxTables
Values == 1..MaxValue
NoRef == 0           \* Option::None of HashMap::get

VARIABLES cells, tables, status, handles, owners, last, steps, log

vars == <<cells, tables, status, handles, owners, last, steps, log>>

\* ------------------------------------------------------------ heap boxes
\* A freed (or never allocated) HashConsedBox address.
FreeCell == [live |-> FALSE, value |-> 0, conser |-> 0, refs |-> 0]

\* A freed (or never allocated) HashConserBox address.
FreeTable == [live |-> FALSE, map |-> {}, refs |-> 0]

\* The heap as one value, threaded through the steps of a handler, with the
\* log of what the handler has removed, released and freed so far.
Heap(c, t, s) == [cells |-> c, tables |-> t, status |-> s, log |-> <<>>]

\* Record the step e of the running handler
Emit(S, e) == [S EXCEPT !.log = Append(@, e)]

\* Outstanding HashConsed objects held by callers: the pointer they hold and
\* the table and value they were made from.
HandleRecs == [ptr : CellIds, t : TableIds, v : Values]

\* ---------------------------------------------------------- HashConser
\* HashConser::inc_refs
ConserIncRefs(S, t) ==
  [S EXCEPT !.tables[t].refs = @ + 1]

\* HashConser::dec_refs; usize subtraction at zero panics in a debug build
\* and wraps in a release build, recorded as the outcome "overflow".
ConserDecRefs(S, t) ==
  IF S.tables[t].refs = 0
  THEN [S EXCEPT !.status = "overflow"]
  ELSE [S EXCEPT !.tables[t].refs = @ - 1]

\* Clone for HashConser
ConserClone(S, t) ==
  IF ~S.tables[t].live THEN [S EXCEPT !.status = "ub"]
  ELSE ConserIncRefs(S, t)

\* Variant of ConserClonePtr that points the clone at another allocated
\* table box when there is one
ConserClonePtrOther(S, t) ==
  LET o == {u \in DOMAIN S.tables : u # t /\ S.tables[u].live} IN
  IF o = {} THEN t ELSE CHOOSE u \in o : TRUE

\* The pointer inside the HashConser that Clone for HashConser returns
ConserClonePtr(S, t) == t

\* HashMap::len
HashMapLen(m) == Cardinality(m)

\* Drop for HashConser
ConserDrop(S, t) ==
  IF S.status # "ok" THEN S
  ELSE IF ~S.tables[t].live THEN [S EXCEPT !.status = "ub"]
  ELSE LET S1 == Emit(ConserDecRefs(S, t), "conser_dec") IN
       IF S1.status # "ok" THEN S1
       ELSE IF S1.tables[t].refs = 0
            THEN IF HashMapLen(S1.tables[t].map) # 0
                 THEN [S1 EXCEPT !.status = "panic"]
                 ELSE Emit([S1 EXCEPT !.tables[t] = FreeTable], "free_table")
            ELSE S1

\* Variant of ConserNew starting the count at zero, as a HashConsedBox does
ConserNewZero(S, t) ==
  [S EXCEPT !.tables[t] = [live |-> TRUE, map |-> {}, refs |-> 0]]

\* HashConser::new, at the free address t
ConserNew(S, t) ==
  [S EXCEPT !.tables[t] = [live |-> TRUE, map |-> {}, refs |-> 1]]

\* ----------------------------------------------------------- UnsafeRef
\* Hash of the raw value (the Hash impl of T)
ValueHash(v) == v % HashBuckets

\* Variant of UnsafeRefHash hashing the pointer, as Hash for HashConsed does
UnsafeRefHashPtr(S, u) == u % HashBuckets

\* Hash for UnsafeRef
UnsafeRefHash(S, u) == ValueHash(S.cells[u].value)

\* Variant of UnsafeRefEq comparing the pointers, as PartialEq for HashConsed does
UnsafeRefEqPtr(S, u1, u2) == u1 = u2

\* PartialEq for UnsafeRef
UnsafeRefEq(S, u1, u2) == S.cells[u1].value = S.cells[u2].value

\* Variant of UnsafeRefMake that copies the conser without counting it
UnsafeRefMakeNoClone(S, p, t, v) ==
  [S EXCEPT !.cells[p] = [live |-> TRUE, value |-> v, conser |-> t, refs |-> 0]]

\* Variant of UnsafeRefMake that starts the box's count at one, as
\* HashConser::new does
UnsafeRefMakeOne(S, p, t, v) ==
  LET S1 == ConserClone(S, t) IN
  [S1 EXCEPT !.cells[p] = [live |-> TRUE, value |-> v, conser |-> t, refs |-> 1]]

\* UnsafeRef::make, the Box allocated at the free address p
UnsafeRefMake(S, p, t, v) ==
  LET S1 == ConserClone(S, t) IN
  [S1 EXCEPT !.cells[p] = [live |-> TRUE, value |-> v, conser |-> t, refs |-> 0]]

\* Variant of UnsafeRefDestroy that frees the box without dropping its conser
UnsafeRefDestroyLeak(S, p) ==
  IF ~S.cells[p].live THEN [S EXCEPT !.status = "ub"]
  ELSE [S EXCEPT !.cells[p] = FreeCell]

\* UnsafeRef::destroy: drops the box, hence its conser field, and frees it
UnsafeRefDestroy(S, p) ==
  IF ~S.cells[p].live THEN [S EXCEPT !.status = "ub"]
  ELSE LET S1 == ConserDrop(S, S.cells[p].conser) IN
       Emit([S1 EXCEPT !.cells[p] = FreeCell], "free_box")

\* UnsafeRef::inc_refs
UnsafeRefIncRefs(S, p) ==
  [S EXCEPT !.cells[p].refs = @ + 1]

\* UnsafeRef::dec_refs
UnsafeRefDecRefs(S, p) ==
  [S EXCEPT !.cells[p].refs = @ + 1]

\* -------------------------------------------------------------- HashMap
\* Variant of HashMapFind that matches every entry whatever its key
HashMapFindAny(S, m, k) == m

\* The entries of m whose key hashes and compares equal to k
HashMapFind(S, m, k) ==
  {e \in m : UnsafeRefHash(S, e.key) = UnsafeRefHash(S, k) /\ UnsafeRefEq(S, e.key, k)}

\* Variant of HashMapGet that looks the key up in the maps of all tables, as
\* one process-wide registry would
HashMapGetGlobal(S, m, k) ==
  LET all == UNION {S.tables[t].map : t \in DOMAIN S.tables}
      f == HashMapFind(S, all, k)
  IN IF f = {} THEN NoRef ELSE (CHOOSE e \in f : TRUE).val

\* HashMap::get
HashMapGet(S, m, k) ==
  LET f == HashMapFind(S, m, k) IN
  IF f = {} THEN NoRef ELSE (CHOOSE e \in f : TRUE).val

\* HashMap::insert
HashMapInsert(S, m, k, v) ==
  LET f == HashMapFind(S, m, k) IN
  IF f = {} THEN m \cup {[key |-> k, val |-> v]}
  ELSE LET e == CHOOSE x \in f : TRUE IN
       (m \ {e}) \cup {[key |-> e.key, val |-> v]}

\* HashMap::remove
HashMapRemove(S, m, k) ==
  LET f == HashMapFind(S, m, k) IN
  IF f = {} THEN m ELSE m \ {CHOOSE e \in f : TRUE}

\* A key of the map points to a freed box: hashing it reads freed memory
DanglingKey(S, m) == \E e \in m : ~S.cells[e.key].live

\* HashConser::remove
ConserRemove(S, t, u) ==
  IF ~S.tables[t].live \/ DanglingKey(S, S.tables[t].map) THEN [S EXCEPT !.status = "ub"]
  ELSE Emit([S EXCEPT !.tables[t].map = HashMapRemove(S, @, u)], "remove")

\* ---------------------------------------------------------- HashConsed
\* Variant of HashConsedFromUnsafe that wraps the box without counting
HashConsedFromUnsafeNoInc(S, u) == S

\* HashConsed::from_unsafe
HashConsedFromUnsafe(S, u) ==
  IF S.status # "ok" THEN S ELSE UnsafeRefIncRefs(S, u)

\* The pointer inside the HashConsed that HashConser::make returns
MakeResult(S, p, t, v) ==
  LET S1 == UnsafeRefMake(S, p, t, v)
      out == HashMapGet(S1, S1.tables[t].map, p)
  IN IF out # NoRef THEN out ELSE p

\* Variant of ConserMake that forgets to destroy the trial box on a hit
ConserMakeLeak(S, p, t, v) ==
  LET S1 == UnsafeRefMake(S, p, t, v) IN
  IF S1.status # "ok" THEN S1
  ELSE IF DanglingKey(S1, S1.tables[t].map) THEN [S1 EXCEPT !.status = "ub"]
  ELSE LET out == HashMapGet(S1, S1.tables[t].map, p) IN
       IF out # NoRef
       THEN HashConsedFromUnsafe(S1, out)
       ELSE HashConsedFromUnsafe(
              [S1 EXCEPT !.tables[t].map = HashMapInsert(S1, @, p, p)], p)

\* HashConser::make, the trial box allocated at the free address p
ConserMake(S, p, t, v) ==
  LET S1 == UnsafeRefMake(S, p, t, v) IN
  IF S1.status # "ok" THEN S1
  ELSE IF DanglingKey(S1, S1.tables[t].map) THEN [S1 EXCEPT !.status = "ub"]
  ELSE LET out == HashMapGet(S1, S1.tables[t].map, p) IN
       IF out # NoRef
       THEN HashConsedFromUnsafe(UnsafeRefDestroy(S1, p), out)
       ELSE HashConsedFromUnsafe(
              [S1 EXCEPT !.tables[t].map = HashMapInsert(S1, @, p, p)], p)

\* Variant of HashConsedDrop that removes and destroys the box at every drop
HashConsedDropAlways(S, u) ==
  IF ~S.cells[u].live THEN [S EXCEPT !.status = "ub"]
  ELSE LET S1 == UnsafeRefDecRefs(S, u) IN
       UnsafeRefDestroy(ConserRemove(S1, S1.cells[u].conser, u), u)

\* Drop for HashConsed
HashConsedDrop(S, u) ==
  IF ~S.cells[u].live THEN [S EXCEPT !.status = "ub"]
  ELSE LET S1 == UnsafeRefDecRefs(S, u) IN
       IF S1.cells[u].refs = 0
       THEN UnsafeRefDestroy(ConserRemove(S1, S1.cells[u].conser, u), u)
       ELSE S1

\* Clone for HashConsed
HashConsedClone(S, u) ==
  IF ~S.cells[u].live THEN [S EXCEPT !.status = "ub"]
  ELSE UnsafeRefIncRefs(S, u)

\* PartialEq for HashConsed
HashConsedEq(h1, h2) == h1.ptr = h2.ptr

\* Deref for HashConsed: the value read through the handle; a read of a
\* freed box may produce any value
DerefValues(S, u) ==
  IF S.cells[u].live THEN {S.cells[u].value} ELSE Values

\* HashConsed::conser
HashConsedConser(S, u) == S.cells[u].conser

\* ------------------------------------------------------ caller's view
RECURSIVE SumOver(_, _)
\* Sum of f over the finite set D
SumOver(f, D) ==
  IF D = {} THEN 0
  ELSE LET x == CHOOSE y \in D : TRUE IN f[x] + SumOver(f, D \ {x})

\* Number of outstanding HashConsed objects pointing to the box at c
Outstanding(c) == SumOver(handles, {h \in HandleRecs : h.ptr = c})

\* Number of outstanding HashConsed objects made from table t
OutstandingOf(t) == SumOver(handles, {h \in HandleRecs : h.t = t})

\* The operation that ran last, with its table, value and pointer
Last(op, t, v, ptr) == [op |-> op, t |-> t, v |-> v, ptr |-> ptr, via |-> FALSE]

\* Commit the heap a handler leaves behind
Commit(S) ==
  /\ cells' = S.cells
  /\ tables' = S.tables
  /\ status' = S.status
  /\ log' = S.log

Here == Heap(cells, tables, status)

Init ==
  /\ cells = [c \in CellIds |-> FreeCell]
  /\ tables = [t \in TableIds |-> FreeTable]
  /\ status = "ok"
  /\ handles = [h \in HandleRecs |-> 0]
  /\ owners = [t \in TableIds |-> 0]
  /\ last = Last("init", 0, 0, 0)
  /\ steps = 0
  /\ log = <<>>

\* The caller goes on to its next call: nothing has failed so far
Running ==
  /\ status = "ok"
  /\ steps < MaxSteps
  /\ steps' = steps + 1

\* let conser = HashConser::new(); the address of a HashConserBox is never
\* compared or hashed, so the box takes the lowest free one
New(t) ==
  /\ Running
  /\ ~tables[t].live
  /\ \A q \in TableIds : q < t => tables[q].live
  /\ owners[t] = 0
  /\ Commit(ConserNew(Here, t))
  /\ owners' = [owners EXCEPT ![t] = 1]
  /\ last' = Last("new", t, 0, 0)
  /\ UNCHANGED handles

\* conser.clone()
CloneConser(t) ==
  /\ Running
  /\ owners[t] > 0
  /\ Commit(ConserClone(Here, t))
  /\ owners' = [owners EXCEPT ![ConserClonePtr(Here, t)] = @ + 1]
  /\ last' = Last("conser_clone", ConserClonePtr(Here, t), 0, 0)
  /\ UNCHANGED handles

\* HashConsed::conser(&h).clone()
CloneConserOf(h) ==
  /\ Running
  /\ handles[h] > 0
  /\ LET t == HashConsedConser(Here, h.ptr)
         r == ConserClonePtr(Here, t)
     IN /\ Commit(ConserClone(Here, t))
        /\ owners' = [owners EXCEPT ![r] = @ + 1]
        /\ last' = Last("conser_of", r, h.v, h.ptr)
  /\ UNCHANGED handles

\* drop(conser)
ReleaseConser(t) ==
  /\ Running
  /\ owners[t] > 0
  /\ Commit(ConserDrop(Here, t))
  /\ owners' = [owners EXCEPT ![t] = @ - 1]
  /\ last' = Last("conser_drop", t, 0, 0)
  /\ UNCHANGED handles

\* conser.make(v)
Make(t, v) ==
  /\ Running
  /\ owners[t] > 0
  /\ \E p \in CellIds :
       /\ ~cells[p].live
       /\ LET r == MakeResult(Here, p, t, v) IN
          /\ Commit(ConserMake(Here, p, t, v))
          /\ handles' = [handles EXCEPT ![[ptr |-> r, t |-> t, v |-> v]] = @ + 1]
          /\ last' = [Last("make", t, v, r) EXCEPT
                         !.via = (last.op = "conser_of" /\ last.t = t)]
  /\ UNCHANGED owners

\* h.clone()
Clone(h) ==
  /\ Running
  /\ handles[h] > 0
  /\ Commit(HashConsedClone(Here, h.ptr))
  /\ handles' = [handles EXCEPT ![h] = @ + 1]
  /\ last' = Last("clone", h.t, h.v, h.ptr)
  /\ UNCHANGED owners

\* *h
Deref(h) ==
  /\ Running
  /\ handles[h] > 0
  /\ \E x \in DerefValues(Here, h.ptr) : last' = Last("deref", h.t, x, h.ptr)
  /\ log' = <<>>
  /\ UNCHANGED <<cells, tables, status, handles, owners>>

\* drop(h)
Release(h) ==
  /\ Running
  /\ handles[h] > 0
  /\ Commit(HashConsedDrop(Here, h.ptr))
  /\ handles' = [handles EXCEPT ![h] = @ - 1]
  /\ last' = Last("release", h.t, h.v, h.ptr)
  /\ UNCHANGED owners

\* A second drop of the HashConsed that was just dropped (a forced extra
\* release, as by dropping a bitwise copy of the handle)
ForcedRelease(h) ==
  /\ Running
  /\ last.op \in {"release", "forced"}
  /\ last.ptr = h.ptr /\ last.t = h.t /\ last.v = h.v
  /\ Commit(HashConsedDrop(Here, h.ptr))
  /\ last' = Last("forced", h.t, h.v, h.ptr)
  /\ UNCHANGED <<handles, owners>>

Next ==
  \/ \E t \in TableIds : New(t)
  \/ \E t \in TableIds : CloneConser(t)
  \/ \E h \in HandleRecs : CloneConserOf(h)
  \/ \E t \in TableIds : ReleaseConser(t)
  \/ \E t \in TableIds, v \in Values : Make(t, v)
  \/ \E h \in HandleRecs : Clone(h)
  \/ \E h \in HandleRecs : Deref(h)
  \/ \E h \in HandleRecs : Release(h)

\* Correct usage: every HashConsed is dropped once
Spec == Init /\ [][Next]_vars

NextForced ==
  \/ Next
  \/ \E h \in HandleRecs : ForcedRelease(h)

\* Usage that may drop a HashConsed twice
SpecForced == Init /\ [][NextForced]_vars

TypeOK ==
  /\ status \in {"ok", "panic", "ub", "overflow"}
  /\ \A c \in CellIds : cells[c].refs \in 0..MaxSteps
  /\ steps \in 0..MaxSteps

\* ------------------------------------------------------------ properties
\* Outstanding handles
Held == {h \in HandleRecs : handles[h] > 0}

\* The cells registered in the map of table t
Registered(t) == {e.val : e \in tables[t].map}

\* C1: two HashConsed made from the same table out of equal values, both
\* outstanding, hold the same pointer to a live box, and the HashConsed
\* a make call just returned is that pointer too.
C1_Canonical ==
  /\ \A h1, h2 \in Held :
       (h1.t = h2.t /\ h1.v = h2.v) =>
         /\ HashConsedEq(h1, h2)
         /\ cells[h1.ptr].live
  /\ last.op = "make" =>
       \A h \in Held : (h.t = last.t /\ h.v = last.v) => h.ptr = last.ptr

\* A make call returned a box that another outstanding HashConsed of the
\* same value already pointed to.
C1_Witness ==
  /\ last.op = "make"
  /\ handles[[ptr |-> last.ptr, t |-> last.t, v |-> last.v]] >= 2

\* C2 (fails on the code): after the drop of the last HashConsed of a value, the
\* map of its table has no entry for that value.
C2_Reclaimed ==
  (last.op = "release" /\ Outstanding(last.ptr) = 0) =>
    ~ \E e \in tables[last.t].map : cells[e.key].value = last.v

\* C3 (fails on the code): the refs field of every allocated box equals the number
\* of outstanding HashConsed pointing to it.
C3_CountConservation ==
  \A c \in CellIds : cells[c].live => cells[c].refs = Outstanding(c)

\* C4: while the caller holds no reference to a table and a HashConsed of
\* that table is outstanding, the table box is allocated, its map keeps the
\* entry, the box of the HashConsed is allocated and reads as the value it
\* was made from, equal values still share one pointer, and no operation
\* has failed.
C4_DeferredTeardown ==
  \A h \in Held :
    owners[h.t] = 0 =>
      /\ status = "ok"
      /\ tables[h.t].live
      /\ h.ptr \in Registered(h.t)
      /\ cells[h.ptr].live
      /\ DerefValues(Here, h.ptr) = {h.v}
      /\ \A h2 \in Held : (h2.t = h.t /\ h2.v = h.v) => HashConsedEq(h, h2)

\* A HashConsed was dropped after the caller dropped its table reference,
\* and another HashConsed of the same box is still outstanding.
C4_Witness ==
  /\ last.op = "release"
  /\ owners[last.t] = 0
  /\ Outstanding(last.ptr) > 0

\* C5 (fails on the code): a table whose caller-held references and HashConsed
\* have all been dropped is freed.
C5_TeardownCompletes ==
  \A t \in TableIds :
    (owners[t] = 0 /\ OutstandingOf(t) = 0) => ~tables[t].live

\* C6 (fails on the code): a forced extra drop of a HashConsed whose box has no
\* outstanding HashConsed left ends in a fatal failure.
C6_DoubleReleaseFails ==
  (last.op = "forced" /\ Outstanding(last.ptr) = 0) => status # "ok"

\* C7: under correct usage no operation fails, and a table box whose count
\* is zero has an empty map.
C7_NoFailure ==
  /\ status = "ok"
  /\ \A t \in TableIds : tables[t].refs = 0 => HashMapLen(tables[t].map) = 0

\* The drop of a table reference took the count to zero and freed the box.
C7_Witness ==
  /\ last.op = "conser_drop"
  /\ ~tables[last.t].live
  /\ \E c \in CellIds : cells[c].live

\* Every outstanding HashConsed points to an allocated box that still holds
\* the value and table it was made from.
NoDangling ==
  \A h \in Held :
    /\ cells[h.ptr].live
    /\ cells[h.ptr].value = h.v
    /\ cells[h.ptr].conser = h.t

\* A step that frees a box is the drop of the one HashConsed left on it.
FreedByLastRelease ==
  \A c \in CellIds :
    (cells[c].live /\ ~cells'[c].live) =>
      /\ last'.op = "release"
      /\ last'.ptr = c
      /\ Outstanding(c) = 1
      /\ \A h \in HandleRecs : h.ptr = c => handles'[h] = 0

\* C8: no outstanding HashConsed points to a freed box, and a box is freed
\* only by the drop of the last outstanding HashConsed pointing to it.
C8_NoDangling == []NoDangling /\ [][FreedByLastRelease]_vars

\* A HashConsed is outstanding after another HashConsed of its box was
\* dropped.
C8_Witness ==
  /\ last.op = "release"
  /\ Outstanding(last.ptr) > 0
  /\ cells[last.ptr].live

\* C9: two outstanding HashConsed made from the same table out of different
\* values hold different pointers and read as different values.
C9_Distinct ==
  \A h1, h2 \in Held :
    (h1.t = h2.t /\ h1.v # h2.v) =>
      /\ ~HashConsedEq(h1, h2)
      /\ \A x \in DerefValues(Here, h1.ptr), y \in DerefValues(Here, h2.ptr) : x # y

\* A make call returned while a HashConsed of another value of the same
\* table was outstanding.
C9_Witness ==
  /\ last.op = "make"
  /\ \E h \in Held : h.t = last.t /\ h.v # last.v

\* C10: no two entries of a map have equal keys, and after make(v) exactly
\* one registered box of the table holds v.
C10_KeyUnique ==
  /\ \A t \in TableIds : \A e1, e2 \in tables[t].map :
       UnsafeRefEq(Here, e1.key, e2.key) => e1 = e2
  /\ last.op = "make" =>
       Cardinality({c \in Registered(last.t) : cells[c].value = last.v}) = 1

\* A make call returned a box that was already registered, in a map with
\* two entries.
C10_Witness ==
  /\ last.op = "make"
  /\ cells[last.ptr].refs >= 2
  /\ Cardinality(tables[last.t].map) = 2

\* C11: every box registered in the map of a table has a refs field of at
\* least one.
C11_NoZeroCountEntry ==
  \A t \in TableIds : \A c \in Registered(t) :
    /\ cells[c].live
    /\ cells[c].refs >= 1

\* A HashConsed of a registered box was dropped and the box is still
\* registered.
C11_Witness ==
  /\ last.op = "release"
  /\ last.ptr \in Registered(last.t)

\* The allocated boxes whose conser field points to table t
BoxesOf(t) == {c \in CellIds : cells[c].live /\ cells[c].conser = t}

\* C12: the refs field of an allocated table box equals the number of
\* caller-held references to it plus the number of allocated boxes made
\* for it.
C12_TableCount ==
  \A t \in TableIds :
    tables[t].live => tables[t].refs = owners[t] + Cardinality(BoxesOf(t))

\* A make call hit a registered box, so a trial box was made and destroyed,
\* after the caller cloned its table reference.
C12_Witness ==
  /\ last.op = "make"
  /\ cells[last.ptr].refs >= 2
  /\ owners[last.t] >= 2

\* The boxes registered in table t whose value equals v
RegisteredFor(t, v) == {c \in Registered(t) : cells[c].value = v}

\* A make call that finds its value registered returns the registered box
\* with its refs one higher, destroys the trial box, and leaves the maps,
\* the table counts and every other box as they were.
MakeHit ==
  LET t == last'.t
      v == last'.v
      r == last'.ptr
  IN (last'.op = "make" /\ RegisteredFor(t, v) # {}) =>
       /\ r \in RegisteredFor(t, v)
       /\ tables' = tables
       /\ cells'[r] = [cells[r] EXCEPT !.refs = @ + 1]
       /\ \A c \in CellIds \ {r} : cells'[c] = cells[c]
       /\ log' = <<"conser_dec", "free_box">>

\* C13: on a hit, make discards the trial box unregistered, leaves the map
\* and the table count unchanged, raises the count of the existing box by
\* one and changes no other box.
C13_InternHit == [][MakeHit]_vars

\* A make call hit a registered box and destroyed its trial box.
C13_Witness ==
  /\ last.op = "make"
  /\ log = <<"conser_dec", "free_box">>
  /\ cells[last.ptr].refs >= 2

\* A make call that does not find its value registered registers one new
\* box holding the value with refs 1, returns it, raises the table count by
\* one, and leaves the other entries, boxes and tables as they were.
MakeMiss ==
  LET t == last'.t
      v == last'.v
      r == last'.ptr
  IN (last'.op = "make" /\ RegisteredFor(t, v) = {}) =>
       /\ ~cells[r].live
       /\ cells'[r] = [live |-> TRUE, value |-> v, conser |-> t, refs |-> 1]
       /\ tables'[t].map = tables[t].map \cup {[key |-> r, val |-> r]}
       /\ HashMapLen(tables'[t].map) = HashMapLen(tables[t].map) + 1
       /\ tables'[t].refs = tables[t].refs + 1
       /\ \A u \in TableIds \ {t} : tables'[u] = tables[u]
       /\ \A c \in CellIds \ {r} : cells'[c] = cells[c]

\* C14: on a miss, make adds exactly one entry, whose box holds the value
\* with count 1 and is the box returned; the table count is one higher and
\* the earlier entries and counts are unchanged.
C14_InternMiss == [][MakeMiss]_vars

\* A make call registered a second box in a table.
C14_Witness ==
  /\ last.op = "make"
  /\ log = <<>>
  /\ cells[last.ptr].refs = 1
  /\ HashMapLen(tables[last.t].map) = 2

\* The drop of a HashConsed whose box has another HashConsed outstanding
\* changes the refs field of that box and nothing else.
ReleaseShared ==
  LET r == last'.ptr
  IN (last'.op = "release" /\ Outstanding(r) >= 2) =>
       /\ tables' = tables
       /\ cells'[r] = [cells[r] EXCEPT !.refs = cells'[r].refs]
       /\ cells'[r].refs # cells[r].refs
       /\ \A c \in CellIds \ {r} : cells'[c] = cells[c]
       /\ log' = <<>>

\* C15: a release that leaves another HashConsed of the box outstanding
\* leaves the maps, the table counts, the registration and storage of the
\* box and every other box unchanged; only the count of that box changes.
C15_ReleaseNoFurtherAction == [][ReleaseShared]_vars

\* A HashConsed was dropped while the caller still held a table reference
\* and another HashConsed of the same box.
C15_Witness ==
  /\ last.op = "release"
  /\ log = <<>>
  /\ owners[last.t] >= 1
  /\ Outstanding(last.ptr) >= 1
  /\ last.ptr \in Registered(last.t)

\* The drop that finds refs at one removes the entry, then frees the box,
\* then releases the table reference the box held.
LastReleaseOrder ==
  LET r == last'.ptr
  IN (last'.op = "release" /\ cells[r].refs = 1) =>
       log' \in {<<"remove", "free_box", "conser_dec">>,
                 <<"remove", "free_box", "conser_dec", "free_table">>}

\* C16 (fails on the code): the release that takes a count from one to zero
\* removes the entry from the map, then frees the box, then releases the
\* table reference held by the box.
C16_LastReleaseOrder == [][LastReleaseOrder]_vars

\* The boxes registered in the map of table t after the step
RegisteredNext(t) == {e.val : e \in tables'[t].map}

\* The steps a box may take: allocated and registered with refs 1 by a make
\* call, kept registered with refs of at least one, freed and unregistered
\* by the drop that finds refs at one, and by that drop always.
BoxLifecycle ==
  \A c \in CellIds :
    /\ (~cells[c].live /\ cells'[c].live) =>
         /\ last'.op = "make"
         /\ last'.ptr = c
         /\ cells'[c].refs = 1
         /\ c \in RegisteredNext(cells'[c].conser)
    /\ (cells[c].live /\ cells'[c].live) =>
         /\ cells'[c].refs >= 1
         /\ cells'[c].value = cells[c].value
         /\ c \in RegisteredNext(cells'[c].conser)
    /\ (cells[c].live /\ ~cells'[c].live) =>
         /\ last'.op = "release"
         /\ last'.ptr = c
         /\ cells[c].refs = 1
    /\ (cells[c].live /\ last'.op = "release" /\ last'.ptr = c /\ cells[c].refs = 1) =>
         /\ ~cells'[c].live
         /\ \A t \in TableIds : c \notin RegisteredNext(t)

\* C17 (fails on the code): a box goes from unregistered with count 0 to
\* live with count >= 1 to removed and freed, the last step taken exactly at
\* the release that takes its count from one to zero.
C17_CellLifecycle == [][BoxLifecycle]_vars

\* A call on one table leaves every other table box, the caller's
\* references to it and the boxes made for it as they were.
OtherTablesUnchanged ==
  \A t \in TableIds \ {last'.t} :
    /\ tables'[t] = tables[t]
    /\ owners'[t] = owners[t]
    /\ \A c \in CellIds : (cells[c].live /\ cells[c].conser = t) => cells'[c] = cells[c]
    /\ \A h \in HandleRecs : h.t = t => handles'[h] = handles[h]

\* HashConsed made from different tables never hold the same pointer, and
\* each points to a box of the table it was made from.
DistinctAcrossTables ==
  /\ \A h1, h2 \in Held : h1.t # h2.t => ~HashConsedEq(h1, h2)
  /\ \A h \in Held : HashConsedConser(Here, h.ptr) = h.t /\ h.ptr \in Registered(h.t)

\* C18: calls on one table leave the map, the box counts and the count of
\* another table unchanged, and equal values made in two tables get two
\* distinct boxes.
C18_TableIsolation == [][OtherTablesUnchanged]_vars /\ []DistinctAcrossTables

\* A make call returned while a HashConsed of the same value made from the
\* other table was outstanding.
C18_Witness ==
  /\ last.op = "make"
  /\ \E h \in Held : h.t # last.t /\ h.v = last.v
  /\ \A t \in TableIds : HashMapLen(tables[t].map) >= 1

\* A make call through a table reference cloned from HashConsed::conser
\* runs on the table of that handle's box, and when its value is registered
\* there it returns the registered box, which every outstanding HashConsed
\* of that value and table points to, and leaves the map as it was.
MakeViaHandle ==
  LET t == last'.t
      v == last'.v
  IN (last.op = "conser_of" /\ last'.op = "make" /\ last'.via) =>
       /\ t = HashConsedConser(Here, last.ptr)
       /\ RegisteredFor(t, v) # {} =>
            /\ last'.ptr \in RegisteredFor(t, v)
            /\ tables'[t].map = tables[t].map
            /\ \A h \in Held : (h.t = t /\ h.v = v) => h.ptr = last'.ptr

\* C19: a table reference cloned from the one HashConsed::conser exposes
\* denotes the table of the handle; make through it of a registered value
\* returns the pointer the existing HashConsed hold and adds no entry.
C19_PerTable == [][MakeViaHandle]_vars

\* After the caller dropped its own table reference, a make call through a
\* reference cloned from a handle returned the box of that handle.
C19_Witness ==
  /\ last.op = "make"
  /\ last.via
  /\ owners[last.t] = 1
  /\ handles[[ptr |-> last.ptr, t |-> last.t, v |-> last.v]] >= 2
  /\ HashMapLen(tables[last.t].map) = 1
====
